---------------------------- MODULE Spec2Model ----------------------------
(***************************************************************************)
(* Model of armada's cluster-backed lock (src/armada/handlers/lock.py)     *)
(* and of its manifest resolver (src/armada/handlers/manifest.py).  The    *)
(* two share no state: Spec and SpecWatched run the lock, SpecManifest     *)
(* the resolver.                                                           *)
(*                                                                         *)
(* Several orchestrator instances (Procs) race on one named lock object    *)
(* stored in the cluster.  Every cluster call is one atomic step; time     *)
(* passes between steps (Tick) without bound, since every call is blocking *)
(* I/O and every sleep may overshoot.  The clock counts ticks of           *)
(* 1/TicksPerSec seconds; the heartbeat stamp is written with one-second   *)
(* resolution (TIME_FORMAT), so strftime truncates.                        *)
(***************************************************************************)
EXTENDS Integers, FiniteSets, Sequences, TLC

VARIABLES
    now,        \* wall clock, in ticks
    crd,        \* cluster: the lock CRD is installed
    lockObj,    \* cluster: the lock object of this name, or None
    serial,     \* cluster: last uid / resourceVersion handed out
    pc,         \* per caller: position in the code
    mode,       \* per caller: "direct" (Lock API) or "wrapper" (lock_and_thread)
    start,      \* per caller: `start` of acquire_lock / of func_wrapper
    wake,       \* per caller: earliest end of the current time.sleep
    meta,       \* per caller: LockConfig.metadata (uid, resourceVersion)
    work,       \* per caller: the future submitted by func_wrapper
    outcome,    \* per caller: what the last call returned or raised
    via,        \* per caller: how the acquire loop reached its current iteration
    seenUid,    \* per caller: uid of the lock object lock_age judged expired
    seenAge,    \* per caller: value lock_age last computed
    lastDel,    \* per caller: status of the last delete issued in this call
    hit,        \* per caller: where a non-handled cluster error was received
    lapsed,     \* per caller: its own lock object was once older than expiry
    quiet,      \* per caller: since entry the lock was another's and never expired
    stray,      \* a release_lock by a caller not holding removed a lock object
    begun,      \* observer: time the work now running was submitted
    beats,      \* observer: heartbeats applied since then, while it ran
    ran,        \* observer: how long the work had run when it completed
    prompt,     \* observer: since then time passed only in sleeps not yet over
    documents,        \* resolver input: the caller's list of documents
    target_manifest,  \* resolver input: the target name, "" for None
    self_documents,   \* Manifest.documents: the resolver's own copy
    shared,           \* Manifest.documents is the very object the caller passed
    charts,           \* Manifest.charts: references into self_documents
    groups,           \* Manifest.groups: references into self_documents
    manifest,         \* Manifest.manifest: a reference, 0 for None
    rpc,              \* resolver: "new", "rejected", "constructed", "building",
                      \*           "resolved" or "failed"
    stack,            \* resolver: the calls of get_manifest in progress
    raised,           \* resolver: the exception in flight, or the one surfaced
    cause,            \* observer: the lookup that failed, and where
    accessed          \* the last accessor called and how it ended

lockVars == <<now, crd, lockObj, serial, pc, mode, start, wake, meta, work,
              outcome, via, seenUid, seenAge, lastDel, hit, lapsed, quiet, stray>>
beatVars == <<begun, beats, ran, prompt>>
manifestVars == <<documents, target_manifest, self_documents, shared, charts, groups,
                  manifest, rpc, stack, raised, cause, accessed>>
vars == <<lockVars, beatVars, manifestVars>>

---------------------------------------------------------------------------
(* Bounds of the model: the clock stops after MaxTime seconds, the cluster *)
(* hands out at most MaxSerial uids / resourceVersions.                    *)
MaxTime == 3
MaxSerial == 4

(* Clock ticks per second.  time.time() and utcnow() are finer than the    *)
(* one-second stamp that TIME_FORMAT writes.                               *)
TicksPerSec == 2

(* Configuration (oslo.config values read by Lock.__init__ / func_wrapper), *)
(* in seconds, ordered retryDelay <= updateInterval < expiry <= timeout.    *)
lock_expiration == 2
lock_acquire_timeout == 2
lock_acquire_delay == 1
lock_update_interval == 1

Procs == {1, 2}
None == [uid |-> 0]
NoMeta == [uid |-> 0, rv |-> 0]

Secs(s) == s * TicksPerSec
MaxTick == Secs(MaxTime)

(* datetime.strftime(TIME_FORMAT) followed by strptime: whole seconds only *)
Strftime(t) == (t \div TicksPerSec) * TicksPerSec

(* data.lastUpdated of a lock object not written by this program: a string *)
(* that TIME_FORMAT does not parse, or no such key at all                  *)
Unparseable == -1
Missing == -2
WellFormed(obj) == obj.lastUpdated >= 0

---------------------------------------------------------------------------
(* Cluster API (spec section 6.1): the answer of each call in the current  *)
(* cluster state.  A response is a record with a status and, for 200/201,  *)
(* the stored object.                                                      *)
createCustomResource(stamp) ==
    IF ~crd THEN [status |-> 404, obj |-> None]
    ELSE IF lockObj # None THEN [status |-> 409, obj |-> None]
    ELSE [status |-> 201,
          obj |-> [uid |-> serial + 1, rv |-> serial + 1, lastUpdated |-> stamp]]

readCustomResource ==
    IF ~crd \/ lockObj = None THEN [status |-> 404, obj |-> None]
    ELSE [status |-> 200, obj |-> lockObj]

replaceCustomResource(rv, stamp) ==
    IF ~crd \/ lockObj = None THEN [status |-> 404, obj |-> None]
    ELSE IF lockObj.rv # rv THEN [status |-> 409, obj |-> None]
    ELSE [status |-> 200,
          obj |-> [uid |-> lockObj.uid, rv |-> serial + 1, lastUpdated |-> stamp]]

deleteCustomResource ==
    IF ~crd \/ lockObj = None THEN [status |-> 404, obj |-> None]
    ELSE [status |-> 200, obj |-> None]

createCustomResourceDefinition ==
    IF crd THEN [status |-> 409, obj |-> None] ELSE [status |-> 201, obj |-> None]

(* Any call may instead fail with a status the code does not handle       *)
(* (`Other` in section 6.1).                                               *)
Fault == [status |-> 500, obj |-> None]
Answers(r) == {r, Fault}
(* the caller p received r while in `where` *)
Note(p, r, where) == hit' = [hit EXCEPT ![p] = IF r = Fault THEN where ELSE @]

---------------------------------------------------------------------------
(* no document set has been handed to a resolver *)
NoExc == [type |-> "none", named |-> ""]
NoCause == [ref |-> "", encl |-> "", at |-> "none"]
NoAccess == [call |-> "none", outcome |-> "none"]

InitNoManifest ==
    /\ documents = <<>> /\ target_manifest = "" /\ self_documents = <<>>
    /\ shared = FALSE
    /\ charts = <<>> /\ groups = <<>> /\ manifest = 0
    /\ rpc = "new" /\ stack = <<>> /\ raised = NoExc /\ cause = NoCause
    /\ accessed = NoAccess

InitLock ==
    /\ now = 0
    /\ \/ crd = FALSE /\ lockObj = None /\ serial = 0
       \/ crd = TRUE /\ lockObj = None /\ serial = 0
       \* a lock left behind by an instance that crashed
       \/ crd = TRUE /\ lockObj = [uid |-> 1, rv |-> 1, lastUpdated |-> 0]
          /\ serial = 1
       \* a lock object of that name whose stamp is malformed
       \/ crd = TRUE /\ serial = 1
          /\ \E stamp \in {Unparseable, Missing} :
                lockObj = [uid |-> 1, rv |-> 1, lastUpdated |-> stamp]
    /\ pc = [p \in Procs |-> "idle"]
    \* instance 1 deploys under lock_and_thread, instance 2 drives a Lock itself
    /\ mode = [p \in Procs |-> IF p = 1 THEN "wrapper" ELSE "direct"]
    /\ start = [p \in Procs |-> 0]
    /\ wake = [p \in Procs |-> 0]
    /\ meta = [p \in Procs |-> NoMeta]
    /\ work = [p \in Procs |-> "none"]
    /\ outcome = [p \in Procs |-> "none"]
    /\ via = [p \in Procs |-> "entry"]
    /\ seenUid = [p \in Procs |-> 0]
    /\ seenAge = [p \in Procs |-> 0]
    /\ lastDel = [p \in Procs |-> 0]
    /\ hit = [p \in Procs |-> "none"]
    /\ lapsed = [p \in Procs |-> FALSE]
    /\ quiet = [p \in Procs |-> FALSE]
    /\ stray = FALSE
    /\ begun = 0 /\ beats = 0 /\ ran = 0 /\ prompt = TRUE

Init == InitLock /\ InitNoManifest

Age(obj) == now - obj.lastUpdated
Owns(p) == lockObj # None /\ meta[p].uid = lockObj.uid

(* Time passes.  A lock object that grows older than expiry is noted for   *)
(* its owner (lapsed) and for every caller waiting on it (quiet).          *)
Tick ==
    /\ now < MaxTick
    /\ now' = now + 1
    /\ LET old == /\ lockObj # None /\ WellFormed(lockObj)
                  /\ now + 1 - lockObj.lastUpdated > Secs(lock_expiration)
       IN /\ lapsed' = [p \in Procs |-> lapsed[p] \/ (old /\ Owns(p))]
          /\ quiet' = [p \in Procs |-> quiet[p] /\ ~old]
    /\ UNCHANGED <<crd, lockObj, serial, pc, mode, start, wake, meta, work,
                   outcome, via, seenUid, seenAge, lastDel, hit,
                   stray>>

---------------------------------------------------------------------------
(* Lock.acquire_lock, one action per cluster call or sleep.  The helpers   *)
(* below set the caller's control state: pc, outcome, start, wake, via,    *)
(* seenUid, seenAge and work.                                              *)

goto(p, l) ==
    /\ pc' = [pc EXCEPT ![p] = l]
    /\ UNCHANGED <<outcome, start, wake, via, seenUid, seenAge, work,
                   stray>>

(* faulty variant: the test gives up one retry delay early *)
within_timeout_less_delay(p) ==
    now - start[p] < Secs(lock_acquire_timeout) - Secs(lock_acquire_delay)

(* line 116: the while test, evaluated on entry, after `continue` and      *)
(* after the sleep                                                         *)
within_timeout(p) == now - start[p] < Secs(lock_acquire_timeout)

(* back at the while test; `how` tells what led there: "crd" (line 125),   *)
(* "expired" (line 145) or "slept" (line 147).  Line 148 raises.           *)
loop_head(p, how) ==
    /\ wake' = [wake EXCEPT ![p] = 0]
    /\ seenAge' = [seenAge EXCEPT ![p] = 0]
    /\ UNCHANGED <<start, work,
                   stray>>
    /\ IF within_timeout(p)
       THEN /\ pc' = [pc EXCEPT ![p] = "create"]
            /\ via' = [via EXCEPT ![p] = how]
            /\ UNCHANGED <<outcome, seenUid>>
       ELSE /\ pc' = [pc EXCEPT ![p] = "idle"]
            /\ outcome' = [outcome EXCEPT ![p] = "LockException"]
            /\ via' = [via EXCEPT ![p] = "entry"]
            /\ seenUid' = [seenUid EXCEPT ![p] = 0]

(* an exception leaves acquire_lock (and __enter__, so no __exit__ runs) *)
acquire_raise(p, exc) ==
    /\ pc' = [pc EXCEPT ![p] = "idle"]
    /\ outcome' = [outcome EXCEPT ![p] = exc]
    /\ start' = [start EXCEPT ![p] = 0]
    /\ wake' = [wake EXCEPT ![p] = 0]
    /\ via' = [via EXCEPT ![p] = "entry"]
    /\ seenUid' = [seenUid EXCEPT ![p] = 0]
    /\ seenAge' = [seenAge EXCEPT ![p] = 0]
    /\ UNCHANGED work

(* `return True`, reached by `how`: the create of this iteration (line     *)
(* 121, `how` is what led to the iteration) or "own", the ownership test   *)
(* (line 135).  A direct caller now holds the lock.  func_wrapper (lines   *)
(* 55-62) submits the work, takes its own `start`, finds the future not    *)
(* done and no interval elapsed, and sleeps one second.                    *)
acquire_return(p, how) ==
    /\ seenAge' = [seenAge EXCEPT ![p] = 0]
    /\ via' = [via EXCEPT ![p] = how]
    /\ UNCHANGED <<seenUid,
                   stray>>
    /\ IF mode[p] = "wrapper"
       THEN /\ pc' = [pc EXCEPT ![p] = "hb_sleep"]
            /\ work' = [work EXCEPT ![p] = "running"]
            /\ start' = [start EXCEPT ![p] = now]
            /\ wake' = [wake EXCEPT ![p] = now + Secs(1)]
            /\ UNCHANGED outcome
       ELSE /\ pc' = [pc EXCEPT ![p] = "held"]
            /\ outcome' = [outcome EXCEPT ![p] = "True"]
            /\ start' = [start EXCEPT ![p] = 0]
            /\ wake' = [wake EXCEPT ![p] = 0]
            /\ UNCHANGED work

(* what a caller notes when it enters acquire_lock *)
enter(p, uid) ==
    /\ start' = [start EXCEPT ![p] = now]
    /\ pc' = [pc EXCEPT ![p] = "create"]
    /\ outcome' = [outcome EXCEPT ![p] = "none"]
    /\ via' = [via EXCEPT ![p] = "entry"]
    /\ seenUid' = [seenUid EXCEPT ![p] = 0]
    /\ seenAge' = [seenAge EXCEPT ![p] = 0]
    /\ wake' = [wake EXCEPT ![p] = 0]
    /\ lastDel' = [lastDel EXCEPT ![p] = 0]
    /\ hit' = [hit EXCEPT ![p] = "none"]
    /\ quiet' = [quiet EXCEPT ![p] = /\ lockObj # None
                                      /\ lockObj.uid # uid
                                      /\ WellFormed(lockObj)
                                      /\ Age(lockObj) <= Secs(lock_expiration)]

(* lines 113-116: a caller that uses the Lock API itself; the handle, and  *)
(* with it the recorded metadata, is kept from call to call                *)
acquire_lock(p) ==
    /\ mode[p] = "direct"
    /\ pc[p] \in {"idle", "held"}
    /\ enter(p, meta[p].uid)
    /\ UNCHANGED <<now, crd, lockObj, serial, mode, meta, work, lapsed,
                   stray>>

(* lines 53-54: func_wrapper builds a new Lock (lines 72-90, 169-182: the  *)
(* metadata holds the name only) and __enter__ calls acquire_lock          *)
func_wrapper(p) ==
    /\ mode[p] = "wrapper"
    /\ pc[p] = "idle"
    /\ work[p] # "running"
    /\ enter(p, 0)
    /\ meta' = [meta EXCEPT ![p] = NoMeta]
    /\ work' = [work EXCEPT ![p] = "none"]
    /\ lapsed' = [lapsed EXCEPT ![p] = FALSE]
    /\ UNCHANGED <<now, crd, lockObj, serial, mode,
                   stray>>

(* lines 184-199 create_lock and lines 117-131, the handling of its answer *)
create_lock(p) ==
    /\ pc[p] = "create"
    /\ \E r \in Answers(createCustomResource(Strftime(now))) :
        /\ Note(p, r, "acquire")
        /\ CASE r.status = 201 ->
                  /\ serial < MaxSerial
                  /\ lockObj' = r.obj
                  /\ serial' = serial + 1
                  /\ meta' = [meta EXCEPT ![p] = [uid |-> r.obj.uid, rv |-> r.obj.rv]]
                  /\ lapsed' = [lapsed EXCEPT ![p] = FALSE]
                  /\ acquire_return(p, via[p])
             [] r.status = 404 ->
                  /\ goto(p, "mkcrd")
                  /\ UNCHANGED <<lockObj, serial, meta, lapsed>>
             [] r.status = 409 ->
                  /\ goto(p, "test_own")
                  /\ UNCHANGED <<lockObj, serial, meta, lapsed>>
             [] OTHER ->
                  /\ acquire_raise(p, "Api500")
                  /\ UNCHANGED <<lockObj, serial, meta, lapsed>>
    /\ UNCHANGED <<now, crd, mode, lastDel, quiet,
                   stray>>

(* lines 263-301 create_definition, called at line 124, then `continue`.   *)
(* A 409 means the CRD is already there.  (The known ValueError of the     *)
(* client, raised although the CRD was created, is swallowed: the same     *)
(* step as a 201.)                                                         *)
(* faulty variant: an `already exists` answer is raised again *)
definition_created(r) == r.status = 201

(* lines 283-301: the install counts as done for a 201 and for a 409 *)
definition_exists(r) == r.status \in {201, 409}

create_definition(p) ==
    /\ pc[p] = "mkcrd"
    /\ \E r \in Answers(createCustomResourceDefinition) :
        /\ Note(p, r, "acquire")
        /\ crd' = (crd \/ r.status = 201)
        /\ IF definition_exists(r)
           THEN loop_head(p, "crd")
           ELSE acquire_raise(p, "Api500")
    /\ UNCHANGED <<now, lockObj, serial, mode, meta, lastDel, lapsed, quiet,
                   stray>>

(* lines 201-218 get_lock: the object, None for a 404; any other status   *)
(* is raised again (line 218)                                              *)
get_lock(r) == IF r.status = 200 THEN r.obj ELSE None
(* faulty variant: every error of the read is swallowed like the 404 *)
get_lock_swallows(r) == FALSE

get_lock_raises(r) == r.status \notin {200, 404}

(* faulty variant: the recorded uid is never recognised *)
never_owner(p, lock) == FALSE

(* lines 92-101 _test_lock_ownership, given what get_lock returned *)
test_lock_ownership(p, lock) ==
    IF lock # None THEN meta[p].uid = lock.uid ELSE FALSE

(* faulty variant: the recorded metadata is refreshed from the object just *)
(* read, so any existing lock passes for the caller's own                  *)
adopt_ownership(p) ==
    /\ pc[p] = "test_own"
    /\ \E r \in Answers(readCustomResource) :
        /\ Note(p, r, "acquire")
        /\ CASE get_lock_raises(r) -> acquire_raise(p, "Api500") /\ UNCHANGED meta
             [] ~get_lock_raises(r) /\ get_lock(r) # None ->
                  /\ meta' = [meta EXCEPT ![p] = [uid |-> r.obj.uid, rv |-> r.obj.rv]]
                  /\ acquire_return(p, "own")
             [] OTHER -> goto(p, "lock_age") /\ UNCHANGED meta
    /\ UNCHANGED <<now, crd, lockObj, serial, mode, lastDel, lapsed, quiet, stray>>

(* line 132: the ownership test after a 409; True returns at line 135 *)
acquire_test_ownership(p) ==
    /\ pc[p] = "test_own"
    /\ \E r \in Answers(readCustomResource) :
        /\ Note(p, r, "acquire")
        /\ CASE get_lock_raises(r) -> acquire_raise(p, "Api500")
             [] ~get_lock_raises(r) /\ test_lock_ownership(p, get_lock(r)) ->
                  acquire_return(p, "own")
             [] OTHER -> goto(p, "lock_age")
    /\ UNCHANGED <<now, crd, lockObj, serial, mode, meta, lastDel, lapsed, quiet,
                   stray>>

(* lines 103-111 lock_age: utcnow() - strptime(lastUpdated), or the int 0  *)
(* when there is no lock object                                            *)
lock_age(lock) == IF lock # None THEN Age(lock) ELSE 0

(* lines 105-106: lock['data']['lastUpdated'] raises KeyError without the  *)
(* key, strptime raises ValueError for a string it cannot parse            *)
lock_age_raises(lock) ==
    CASE lock # None /\ lock.lastUpdated = Missing -> "KeyError"
      [] lock # None /\ lock.lastUpdated = Unparseable -> "ValueError"
      [] OTHER -> "none"

(* faulty variant: a lock exactly expiry old already counts as expired *)
reaches_expiry(age) == age >= Secs(lock_expiration)

(* line 141: lock_age() > timedelta(seconds=expire_time) *)
exceeds_expiry(age) == age > Secs(lock_expiration)

(* lines 141-147: the age test; for an expired lock release_lock() is next *)
(* (line 144), otherwise time.sleep(acquire_delay) starts.  With no lock   *)
(* object line 141 compares the int 0 with a timedelta: TypeError.  What   *)
(* lock_age itself raises leaves acquire_lock as well.                     *)
acquire_lock_age(p) ==
    /\ pc[p] = "lock_age"
    /\ \E r \in Answers(readCustomResource) :
        /\ Note(p, r, "acquire")
        /\ CASE get_lock_raises(r) -> acquire_raise(p, "Api500")
             [] ~get_lock_raises(r) /\ get_lock(r) = None ->
                  acquire_raise(p, "TypeError")
             [] ~get_lock_raises(r) /\ lock_age_raises(get_lock(r)) # "none" ->
                  acquire_raise(p, lock_age_raises(get_lock(r)))
             [] OTHER ->
                  /\ seenAge' = [seenAge EXCEPT ![p] = lock_age(get_lock(r))]
                  /\ UNCHANGED <<outcome, start, via, work>>
                  /\ IF exceeds_expiry(lock_age(get_lock(r)))
                     THEN /\ pc' = [pc EXCEPT ![p] = "force_del"]
                          /\ seenUid' = [seenUid EXCEPT ![p] = r.obj.uid]
                          /\ UNCHANGED wake
                     ELSE /\ pc' = [pc EXCEPT ![p] = "sleep"]
                          /\ wake' = [wake EXCEPT ![p] = now + Secs(lock_acquire_delay)]
                          /\ UNCHANGED seenUid
    /\ UNCHANGED <<now, crd, lockObj, serial, mode, meta, lastDel, lapsed, quiet,
                   stray>>

(* faulty variant: the 404 of an absent object is raised like any error *)
delete_lock_strict(r) == r.status = 200

(* lines 220-240 delete_lock: True for 200 and for 404, else the error *)
delete_lock(r) == r.status \in {200, 404}

(* the cluster after a delete answered r: the object of that name is gone, *)
(* whoever created it                                                      *)
Deleted(p, r) ==
    /\ lockObj' = IF r.status = 200 THEN None ELSE lockObj
    /\ quiet' = [q \in Procs |-> quiet[q] /\ r.status # 200 /\ q # p]

(* faulty variant: `continue` without the release_lock() before it *)
force_delete_skipped(p) ==
    /\ pc[p] = "force_del"
    /\ loop_head(p, "expired")
    /\ UNCHANGED <<now, crd, lockObj, serial, mode, meta, lastDel, hit, lapsed,
                   quiet, stray>>

(* lines 144-145: release_lock() on the expired lock, then `continue` *)
acquire_force_delete(p) ==
    /\ pc[p] = "force_del"
    /\ \E r \in Answers(deleteCustomResource) :
        /\ Deleted(p, r)
        /\ Note(p, r, "acquire")
        /\ IF delete_lock(r)
           THEN loop_head(p, "expired")
           ELSE acquire_raise(p, "Api500")
    /\ UNCHANGED <<now, crd, serial, mode, meta, lastDel, lapsed,
                   stray>>

(* lines 146-147: time.sleep(acquire_delay) is over, back to the while test *)
acquire_sleep(p) ==
    /\ pc[p] = "sleep"
    /\ now >= wake[p]
    /\ loop_head(p, "slept")
    /\ UNCHANGED <<now, crd, lockObj, serial, mode, meta, lastDel, hit,
                   lapsed, quiet,
                   stray>>

(* lines 150-152 release_lock called by the handle's user: by the holder,  *)
(* or once more after a release                                            *)
release_lock(p) ==
    /\ mode[p] = "direct"
    /\ pc[p] = "held" \/ (pc[p] = "idle" /\ lastDel[p] # 0)
    /\ \E r \in Answers(deleteCustomResource) :
        /\ Deleted(p, r)
        /\ stray' = (stray \/ (pc[p] = "idle" /\ r.status = 200))
        /\ lastDel' = [lastDel EXCEPT ![p] = r.status]
        /\ pc' = [pc EXCEPT ![p] = "idle"]
        /\ outcome' = [outcome EXCEPT ![p] = IF delete_lock(r) THEN "True" ELSE "Api500"]
        /\ hit' = [hit EXCEPT ![p] = IF r = Fault THEN "release" ELSE "none"]
    /\ lapsed' = [lapsed EXCEPT ![p] = FALSE]
    /\ via' = [via EXCEPT ![p] = "entry"]
    /\ seenUid' = [seenUid EXCEPT ![p] = 0]
    /\ start' = [start EXCEPT ![p] = 0]
    /\ UNCHANGED <<now, crd, serial, mode, wake, meta, work, seenAge>>

---------------------------------------------------------------------------
(* lock_and_thread.func_wrapper, lines 54-63, once the lock is acquired *)

(* the pool thread finishes func, normally or with an exception *)
work_done(p) ==
    /\ work[p] = "running"
    /\ \E res \in {"returned", "raised"} : work' = [work EXCEPT ![p] = res]
    /\ UNCHANGED <<now, crd, lockObj, serial, pc, mode, start, wake, meta,
                   outcome, via, seenUid, seenAge, lastDel, hit, lapsed, quiet,
                   stray>>

(* faulty variant: no context manager, nothing runs on the way out *)
leave_without_exit(p, res) ==
    /\ pc' = [pc EXCEPT ![p] = "idle"]
    /\ outcome' = [outcome EXCEPT ![p] = res]
    /\ start' = [start EXCEPT ![p] = 0]
    /\ wake' = [wake EXCEPT ![p] = 0]

(* lines 54, 162-164: control leaves the `with Lock(...)` block with a     *)
(* result or an exception pending; __exit__ runs next                      *)
leave_with(p, res) ==
    /\ pc' = [pc EXCEPT ![p] = "exit"]
    /\ outcome' = [outcome EXCEPT ![p] = res]
    /\ start' = [start EXCEPT ![p] = 0]
    /\ wake' = [wake EXCEPT ![p] = 0]

(* line 59: time.time() - start > CONF.lock_update_interval *)
update_due(p) == now - start[p] > Secs(lock_update_interval)

(* lines 62, 58-59, 63: time.sleep(1) is over; the while test, then either *)
(* future.result() (which leaves the with block), update_lock() or the     *)
(* next sleep                                                              *)
wrapper_poll(p) ==
    /\ pc[p] = "hb_sleep"
    /\ now >= wake[p]
    /\ CASE work[p] = "returned" -> leave_with(p, "result")
         [] work[p] = "raised" -> leave_with(p, "WorkError")
         [] OTHER ->
              /\ UNCHANGED <<outcome, start>>
              /\ IF update_due(p)
                 THEN /\ pc' = [pc EXCEPT ![p] = "update"]
                      /\ wake' = [wake EXCEPT ![p] = 0]
                 ELSE /\ pc' = [pc EXCEPT ![p] = "hb_sleep"]
                      /\ wake' = [wake EXCEPT ![p] = now + Secs(1)]
    /\ UNCHANGED <<now, crd, lockObj, serial, mode, meta, work, via,
                   seenUid, seenAge, lastDel, hit, lapsed, quiet,
                   stray>>

(* lines 60-62: update_lock() -> replace_lock (lines 242-261) with the     *)
(* recorded resourceVersion and a new stamp, then start = time.time() and  *)
(* time.sleep(1).  Any ApiException leaves the with block.                 *)
update_lock(p) ==
    /\ pc[p] = "update"
    /\ \E r \in Answers(replaceCustomResource(meta[p].rv, Strftime(now))) :
        /\ IF r.status = 200
           THEN /\ serial < MaxSerial
                /\ lockObj' = r.obj
                /\ serial' = serial + 1
                /\ meta' = [meta EXCEPT ![p] = [uid |-> r.obj.uid, rv |-> r.obj.rv]]
                /\ pc' = [pc EXCEPT ![p] = "hb_sleep"]
                /\ start' = [start EXCEPT ![p] = now]
                /\ wake' = [wake EXCEPT ![p] = now + Secs(1)]
                /\ UNCHANGED <<outcome, hit>>
           ELSE /\ leave_with(p, CASE r.status = 404 -> "Api404"
                                    [] r.status = 409 -> "Api409"
                                    [] OTHER -> "Api500")
                /\ hit' = [hit EXCEPT ![p] = "heartbeat"]
                /\ UNCHANGED <<lockObj, serial, meta>>
    /\ UNCHANGED <<now, crd, mode, work, via, seenUid, seenAge, lastDel, lapsed,
                   quiet,
                   stray>>

(* lines 162-164 __exit__: release_lock(), then the result is returned or  *)
(* the pending exception goes on (return False); an error of the delete    *)
(* itself replaces it                                                      *)
wrapper_exit(p) ==
    /\ pc[p] = "exit"
    /\ \E r \in Answers(deleteCustomResource) :
        /\ Deleted(p, r)
        /\ lastDel' = [lastDel EXCEPT ![p] = r.status]
        /\ pc' = [pc EXCEPT ![p] = "idle"]
        /\ outcome' = [outcome EXCEPT ![p] = IF delete_lock(r) THEN @ ELSE "Api500"]
        /\ Note(p, r, "release")
    /\ lapsed' = [lapsed EXCEPT ![p] = FALSE]
    /\ via' = [via EXCEPT ![p] = "entry"]
    /\ seenUid' = [seenUid EXCEPT ![p] = 0]
    /\ UNCHANGED <<now, crd, serial, mode, start, wake, meta, work, seenAge,
                   stray>>

---------------------------------------------------------------------------
(* The lock, raced for by all callers. *)
Next ==
    \/ Tick /\ UNCHANGED <<beatVars, manifestVars>>
    \/ \E p \in Procs :
        \/ acquire_lock(p) /\ UNCHANGED <<beatVars, manifestVars>>
        \/ func_wrapper(p) /\ UNCHANGED <<beatVars, manifestVars>>
        \/ create_lock(p) /\ UNCHANGED <<beatVars, manifestVars>>
        \/ create_definition(p) /\ UNCHANGED <<beatVars, manifestVars>>
        \/ acquire_test_ownership(p) /\ UNCHANGED <<beatVars, manifestVars>>
        \/ acquire_lock_age(p) /\ UNCHANGED <<beatVars, manifestVars>>
        \/ acquire_force_delete(p) /\ UNCHANGED <<beatVars, manifestVars>>
        \/ acquire_sleep(p) /\ UNCHANGED <<beatVars, manifestVars>>
        \/ release_lock(p) /\ UNCHANGED <<beatVars, manifestVars>>
        \/ work_done(p) /\ UNCHANGED <<beatVars, manifestVars>>
        \/ wrapper_poll(p) /\ UNCHANGED <<beatVars, manifestVars>>
        \/ update_lock(p) /\ UNCHANGED <<beatVars, manifestVars>>
        \/ wrapper_exit(p) /\ UNCHANGED <<beatVars, manifestVars>>

Spec == Init /\ [][Next]_vars

---------------------------------------------------------------------------
(* One deployment under lock_and_thread, watched from outside: when its    *)
(* work was submitted, how many heartbeats reached the lock object while   *)
(* it ran, how long it ran, and whether the supervising loop was prompt:   *)
(* every time.sleep(1) took exactly one second and every other statement   *)
(* no time.  The other caller stays at rest.                               *)
Deployer == 1

Watched(step) ==
    /\ step
    /\ LET submitted == work[Deployer] # "running" /\ work'[Deployer] = "running"
           completed == work[Deployer] = "running" /\ work'[Deployer] # "running"
           applied == /\ pc[Deployer] = "update" /\ pc'[Deployer] = "hb_sleep"
                      /\ work[Deployer] = "running"
       IN /\ begun' = IF submitted THEN now ELSE begun
          /\ beats' = IF submitted THEN 0 ELSE IF applied THEN beats + 1 ELSE beats
          /\ ran' = IF submitted THEN 0 ELSE IF completed THEN now - begun ELSE ran
          /\ prompt' = IF submitted THEN TRUE
                       ELSE IF now' # now
                            THEN /\ prompt /\ pc[Deployer] = "hb_sleep"
                                 /\ now < wake[Deployer]
                            ELSE prompt
    /\ UNCHANGED manifestVars

NextWatched ==
    \/ Watched(Tick)
    \/ Watched(func_wrapper(Deployer))
    \/ Watched(create_lock(Deployer))
    \/ Watched(create_definition(Deployer))
    \/ Watched(acquire_test_ownership(Deployer))
    \/ Watched(acquire_lock_age(Deployer))
    \/ Watched(acquire_force_delete(Deployer))
    \/ Watched(acquire_sleep(Deployer))
    \/ Watched(work_done(Deployer))
    \/ Watched(wrapper_poll(Deployer))
    \/ Watched(update_lock(Deployer))
    \/ Watched(wrapper_exit(Deployer))

SpecWatched == Init /\ [][NextWatched]_vars

---------------------------------------------------------------------------
(* The manifest resolver (src/armada/handlers/manifest.py).                *)
(*                                                                         *)
(* A document is a record: its schema, its metadata.name, and the one list *)
(* of its data section that resolution looks at (dependencies of a chart,  *)
(* charts of a group, chart_groups of a manifest); `keyed` tells whether   *)
(* the data section has that key at all.  A list entry is a name string, a *)
(* dict written inline in the input (with its own list of names), or, once *)
(* resolved, a reference to one of the document objects of                 *)
(* self_documents: Python stores the object, not a copy.                   *)
Name(n) == [tag |-> "name", name |-> n, ix |-> 0, list |-> <<>>]
Obj(n, l) == [tag |-> "obj", name |-> n, ix |-> 0, list |-> l]
Doc(i) == [tag |-> "doc", name |-> "", ix |-> i, list |-> <<>>]
Document(schema, n, keyed, l) ==
    [schema |-> schema, name |-> n, keyed |-> keyed, list |-> l]

(* isinstance(entry, dict), lines 153, 181, 207 *)
isdict(e) == e.tag # "name"

(* dict.get(key, []) of lines 150-151, 179-180, 205-206 *)
ListOf(d) == IF d.keyed THEN d.list ELSE <<>>

(* Bounds of the inputs: lists of at most MaxLen entries; the interpreter  *)
(* allows RecursionLimit nested calls below get_manifest.                  *)
MaxLen == 2
RecursionLimit == 5

Lists(S, n) == UNION {[1..k -> S] : k \in 0..n}

(* entries of a list of charts: the charts a and b, a name no document     *)
(* bears, and an inlined chart that itself names a dependency              *)
ChartEntries == {Name("a"), Name("b"), Name("x"), Obj("c", <<"b">>)}
(* entries of a list of groups: the group g, a name no document bears, and *)
(* an inlined group that names its chart                                   *)
GroupEntries == {Name("g"), Name("h"), Obj("k", <<"a">>)}

(* document sets that differ in the lists of chart a, chart b and group g *)
GraphInputs ==
    {<<Document("Chart", "a", TRUE, da), Document("Chart", "b", TRUE, db),
       Document("ChartGroup", "g", kg, IF kg THEN lg ELSE <<>>),
       Document("Manifest", "m", TRUE, <<Name("g")>>)>> :
        da \in Lists(ChartEntries, MaxLen), db \in {<<>>, <<Name("a")>>},
        lg \in Lists(ChartEntries, MaxLen), kg \in BOOLEAN}

(* document sets that differ in the manifest's list of groups *)
ManifestInputs ==
    {<<Document("Chart", "a", TRUE, <<Name("b")>>), Document("Chart", "b", TRUE, <<>>),
       Document("ChartGroup", "g", TRUE, <<Name("a"), Name("b")>>),
       Document("Manifest", "m", km, IF km THEN lm ELSE <<>>)>> :
        lm \in Lists(GroupEntries, MaxLen), km \in BOOLEAN}

(* document sets that differ in which kinds are present and in how many    *)
(* manifests there are; a document of an unknown schema comes first        *)
SelectionInputs ==
    {<<Document("armada/Other/v1", "o", TRUE, <<>>)>> \o cs \o gs \o ms :
        cs \in {<<>>, <<Document("Chart", "a", TRUE, <<>>)>>},
        gs \in {<<>>, <<Document("ChartGroup", "g", TRUE, <<Name("a")>>)>>},
        ms \in {<<>>,
                <<Document("Manifest", "m", TRUE, <<Name("g")>>)>>,
                <<Document("Manifest", "m", TRUE, <<Name("g")>>),
                  Document("Manifest", "n", TRUE, <<>>)>>}}
Targets == {"", "m", "n", "z"}

InitManifest ==
    /\ InitLock /\ ~crd
    /\ \/ documents \in GraphInputs /\ target_manifest = ""
       \/ documents \in ManifestInputs /\ target_manifest = ""
       \/ documents \in SelectionInputs /\ target_manifest \in Targets
    /\ self_documents = <<>> /\ shared = FALSE
    /\ charts = <<>> /\ groups = <<>> /\ manifest = 0
    /\ rpc = "new" /\ stack = <<>> /\ raised = NoExc /\ cause = NoCause
    /\ accessed = NoAccess

(* armada.exceptions: every error of the resolver is a ManifestException;  *)
(* `named` is the name its message quotes                                  *)
Exc(type, named) == [type |-> type, named |-> named]
ManifestExceptions ==
    {"ManifestException", "BuildChartException", "BuildChartGroupException",
     "ChartDependencyException"}

(* schema.get_schema_info(...).type: the three recognised kinds *)
get_schema_info(schema) ==
    IF schema \in {"Chart", "ChartGroup", "Manifest"} THEN schema ELSE "none"

(* faulty variant: the list is kept as it is, with the caller's objects *)
same_object(docs) == [value |-> docs, shared |-> TRUE]

(* copy.deepcopy: an equal value that shares nothing with its argument *)
deepcopy(docs) == [value |-> docs, shared |-> FALSE]

Indices(docs) == [i \in 1..Len(docs) |-> i]

(* faulty variant: the target name is ignored *)
keep_any(d, target) == TRUE

(* lines 99-104: a manifest is kept if no target is given or it bears the  *)
(* target's name                                                           *)
keep_manifest(d, target) == IF target # "" THEN d.name = target ELSE TRUE

(* lines 87-105 _find_documents: the documents of each kind, in order *)
find_documents(docs, target) ==
    [charts |-> SelectSeq(Indices(docs),
                    LAMBDA i : get_schema_info(docs[i].schema) = "Chart"),
     groups |-> SelectSeq(Indices(docs),
                    LAMBDA i : get_schema_info(docs[i].schema) = "ChartGroup"),
     manifests |-> SelectSeq(Indices(docs),
                    LAMBDA i : /\ get_schema_info(docs[i].schema) = "Manifest"
                               /\ keep_manifest(docs[i], target))]

(* lines 52-71 Manifest.__init__ *)
Manifest_init ==
    /\ rpc = "new"
    /\ self_documents' = deepcopy(documents).value
    /\ shared' = deepcopy(documents).shared
    /\ LET found == find_documents(self_documents', target_manifest)
       IN /\ charts' = found.charts
          /\ groups' = found.groups
          /\ IF Len(found.manifests) > 1
             THEN /\ manifest' = 0
                  /\ rpc' = "rejected"
                  /\ raised' = Exc("ManifestException", "")
             ELSE /\ manifest' = IF found.manifests # <<>>
                                 THEN Head(found.manifests) ELSE 0
                  /\ IF found.charts # <<>> /\ found.groups # <<>> /\ manifest' # 0
                     THEN rpc' = "constructed" /\ raised' = NoExc
                     ELSE rpc' = "rejected" /\ raised' = Exc("ManifestException", "")
    /\ UNCHANGED <<documents, target_manifest, stack, cause, accessed>>

(* a call in progress: the function, the document it works on, and the     *)
(* position of its enumerate()                                             *)
Frame(fn, ix, iter) == [fn |-> fn, ix |-> ix, iter |-> iter]
Top == stack[Len(stack)]
Running(fn) ==
    /\ rpc = "building" /\ stack # <<>> /\ raised = NoExc
    /\ Top.fn = fn

(* lines 217-225 get_manifest: calls _build_armada_manifest *)
get_manifest ==
    /\ rpc = "constructed"
    /\ rpc' = "building"
    /\ stack' = <<Frame("manifest", manifest, 1)>>
    /\ UNCHANGED <<documents, target_manifest, self_documents, shared, charts, groups,
                   manifest, raised, cause, accessed>>

(* lines 116-121, 132-137 find_chart_document / find_chart_group_document: *)
(* the first document of the kind with that name, 0 if there is none       *)
find_document(among, n) ==
    LET hits == SelectSeq(among, LAMBDA i : self_documents[i].name = n)
    IN IF hits = <<>> THEN 0 ELSE Head(hits)

(* a nested call; past the interpreter's limit it raises RecursionError in *)
(* the caller                                                              *)
call(fn, ix) ==
    IF Len(stack) >= RecursionLimit
    THEN raised' = Exc("RecursionError", "") /\ UNCHANGED stack
    ELSE stack' = Append(stack, Frame(fn, ix, 1)) /\ UNCHANGED raised

(* one turn of the for loop of `fn`: a dict is passed over, a name is      *)
(* looked up `among` the documents of its kind and the found document is   *)
(* built by `child` before it is stored                                    *)
iterate(fn, among, child, notfound) ==
    /\ Running(fn)
    /\ Top.iter <= Len(ListOf(self_documents[Top.ix]))
    /\ LET e == ListOf(self_documents[Top.ix])[Top.iter]
           j == find_document(among, e.name)
       IN CASE isdict(e) ->
                 /\ stack' = [stack EXCEPT ![Len(stack)].iter = @ + 1]
                 /\ UNCHANGED <<raised, cause>>
            [] ~isdict(e) /\ j = 0 ->
                 /\ raised' = Exc(notfound, e.name)
                 /\ cause' = [ref |-> e.name, encl |-> self_documents[Top.ix].name,
                              at |-> fn]
                 /\ UNCHANGED stack
            [] OTHER -> call(child, j) /\ UNCHANGED cause
    /\ UNCHANGED <<documents, target_manifest, self_documents, shared, charts, groups,
                   manifest, rpc, accessed>>

(* lines 204-210 _build_armada_manifest, the loop *)
build_armada_manifest ==
    iterate("manifest", groups, "group", "BuildChartGroupException")

(* lines 178-184 _build_chart_group, the loop *)
build_chart_group == iterate("group", charts, "deps", "BuildChartException")

(* lines 150-156 _build_chart_deps, the loop *)
build_chart_deps == iterate("deps", charts, "deps", "BuildChartException")

(* faulty variant: the built document is added at the end of the list *)
store_append(ix, iter, j) ==
    [self_documents EXCEPT ![ix].list = Append(@, Doc(j))]

(* lines 157, 185-186, 212-213: list[iter] = the document object *)
store(ix, iter, j) == [self_documents EXCEPT ![ix].list[iter] = Doc(j)]

(* lines 164, 193, 215: the loop is over and the function returns; its     *)
(* caller stores the document just built and goes on with its own loop.    *)
(* The store writes into the caller's documents too if the objects are the *)
(* same.                                                                   *)
returns ==
    /\ rpc = "building" /\ stack # <<>> /\ raised = NoExc
    /\ Top.iter > Len(ListOf(self_documents[Top.ix]))
    /\ IF Len(stack) = 1
       THEN /\ rpc' = "resolved"
            /\ stack' = <<>>
            /\ UNCHANGED <<self_documents, documents>>
       ELSE LET caller == stack[Len(stack) - 1]
            IN /\ self_documents' = store(caller.ix, caller.iter, Top.ix)
               /\ documents' = IF shared THEN self_documents' ELSE documents
               /\ stack' = [SubSeq(stack, 1, Len(stack) - 1)
                               EXCEPT ![Len(stack) - 1].iter = @ + 1]
               /\ UNCHANGED rpc
    /\ UNCHANGED <<target_manifest, shared, charts, groups, manifest, raised,
                   cause, accessed>>

(* lines 158-162, 187-191: an exception passes through the innermost call. *)
(* _build_chart_deps turns any Exception into ChartDependencyException     *)
(* with its chart's name, _build_chart_group any ManifestException into    *)
(* BuildChartGroupException with its group's name; _build_armada_manifest  *)
(* and get_manifest handle nothing.                                        *)
handled(frame, e) ==
    CASE frame.fn = "deps" ->
            Exc("ChartDependencyException", self_documents[frame.ix].name)
      [] frame.fn = "group" /\ e.type \in ManifestExceptions ->
            Exc("BuildChartGroupException", self_documents[frame.ix].name)
      [] OTHER -> e

except ==
    /\ rpc = "building" /\ stack # <<>> /\ raised # NoExc
    /\ raised' = handled(Top, raised)
    /\ stack' = SubSeq(stack, 1, Len(stack) - 1)
    /\ rpc' = IF Len(stack) = 1 THEN "failed" ELSE rpc
    /\ UNCHANGED <<documents, target_manifest, self_documents, shared, charts, groups,
                   manifest, cause, accessed>>

---------------------------------------------------------------------------
(* ManifestHelper, lines 232-290: the accessors.  Each is modelled by how  *)
(* it ends: "ok", or the exception it raises.                              *)

(* the data section of a group entry: of the document, or of the dict *)
GroupData(e) == IF e.tag = "doc" THEN self_documents[e.ix] ELSE Document("", e.name, TRUE, e.list)

(* line 241: .get(KEYWORD_GROUPS), None when the key is absent *)
chart_group_documents == "ok"

(* lines 252-253: iterates what line 241 returned, calls .get on each *)
chart_groups ==
    LET m == self_documents[manifest]
    IN IF ~m.keyed THEN "TypeError"
       ELSE IF \E k \in 1..Len(m.list) : m.list[k].tag = "name" THEN "AttributeError"
       ELSE "ok"

(* lines 265-269: charts.extend(group.get(KEYWORD_CHARTS)); extend(None)   *)
(* raises TypeError                                                        *)
chart_documents ==
    LET m == self_documents[manifest]
    IN IF chart_groups # "ok" THEN chart_groups
       ELSE IF \E k \in 1..Len(m.list) : ~GroupData(m.list[k]).keyed THEN "TypeError"
       ELSE "ok"

(* lines 280-281: chart.get(KEYWORD_DATA) for each collected entry; a name *)
(* string has no get                                                       *)
charts_data ==
    LET m == self_documents[manifest]
    IN IF chart_documents # "ok" THEN chart_documents
       ELSE IF \E k \in 1..Len(m.list) :
                  LET l == GroupData(m.list[k]).list
                  IN IF m.list[k].tag = "doc"
                     THEN \E c \in 1..Len(l) : l[c].tag = "name"
                     ELSE l # <<>>
            THEN "AttributeError"
       ELSE "ok"

accessor(name, ending) ==
    /\ rpc = "resolved"
    /\ accessed' = [call |-> name, outcome |-> ending]
    /\ UNCHANGED <<documents, target_manifest, self_documents, shared, charts, groups,
                   manifest, rpc, stack, raised, cause>>

get_chart_group_documents == accessor("get_chart_group_documents", chart_group_documents)
get_chart_groups == accessor("get_chart_groups", chart_groups)
get_chart_documents == accessor("get_chart_documents", chart_documents)
get_charts == accessor("get_charts", charts_data)
(* lines 289-290: two .get calls on the manifest *)
get_release_prefix == accessor("get_release_prefix", "ok")

NextManifest ==
    \/ Manifest_init /\ UNCHANGED <<lockVars, beatVars>>
    \/ get_manifest /\ UNCHANGED <<lockVars, beatVars>>
    \/ build_armada_manifest /\ UNCHANGED <<lockVars, beatVars>>
    \/ build_chart_group /\ UNCHANGED <<lockVars, beatVars>>
    \/ build_chart_deps /\ UNCHANGED <<lockVars, beatVars>>
    \/ returns /\ UNCHANGED <<lockVars, beatVars>>
    \/ except /\ UNCHANGED <<lockVars, beatVars>>
    \/ get_chart_group_documents /\ UNCHANGED <<lockVars, beatVars>>
    \/ get_chart_groups /\ UNCHANGED <<lockVars, beatVars>>
    \/ get_chart_documents /\ UNCHANGED <<lockVars, beatVars>>
    \/ get_charts /\ UNCHANGED <<lockVars, beatVars>>
    \/ get_release_prefix /\ UNCHANGED <<lockVars, beatVars>>

SpecManifest == InitManifest /\ [][NextManifest]_vars

---------------------------------------------------------------------------
(* Properties *)

(* a caller is past a successful acquire_lock and has not yet issued its   *)
(* release: a direct holder, or func_wrapper inside its with block         *)
Holding(p) == pc[p] \in {"held", "hb_sleep", "update", "exit"}

(* C1: lock exclusion.  Two distinct callers hold the lock at the same     *)
(* time only if one of them let its lock object grow older than expiry     *)
(* without a heartbeat.                                                    *)
LockExclusion ==
    \A p, q \in Procs :
        (p # q /\ Holding(p) /\ Holding(q) /\ ~stray) => (lapsed[p] \/ lapsed[q])

(* C2: tie-break on an expired lock.  Two contenders that judged the same  *)
(* lock object expired never both hold the lock while neither has lapsed.  *)
TieBreak ==
    \A p, q \in Procs :
        ~ /\ p # q
          /\ Holding(p) /\ Holding(q)
          /\ seenUid[p] # 0 /\ seenUid[p] = seenUid[q]
          /\ ~lapsed[p] /\ ~lapsed[q] /\ ~stray

(* C3: at most one caller holds the lock with a recorded uid equal to the  *)
(* uid of the lock object stored in the cluster.                           *)
UidExclusion == Cardinality({p \in Procs : Holding(p) /\ Owns(p)}) <= 1

(* two callers hold at once, and the stored object bears the uid of one *)
UidExclusionWitness ==
    \E p, q \in Procs : p # q /\ Holding(p) /\ Holding(q) /\ Owns(p) /\ ~stray

(* C4: func_wrapper releases on every exit path once the lock is acquired, *)
(* and the work is never started without the lock.  A wrapper caller back  *)
(* at rest that had acquired (its new handle recorded a uid) has issued    *)
(* the delete of __exit__; a submitted future implies a recorded uid.      *)
ReleasedOnExit ==
    \A p \in Procs :
        mode[p] = "wrapper" =>
            /\ (pc[p] = "idle" /\ meta[p].uid # 0) => lastDel[p] # 0
            /\ work[p] # "none" => meta[p].uid # 0

(* a heartbeat raised, and the release was issued before it propagated *)
ReleasedOnExitWitness ==
    \E p \in Procs :
        /\ mode[p] = "wrapper" /\ pc[p] = "idle"
        /\ outcome[p] \in {"Api404", "Api409"} /\ lastDel[p] # 0

(* C5: when a heartbeat fails with Conflict or NotFound, the work is       *)
(* cancelled: it does not keep running once func_wrapper has exited.       *)
UsurpedCancelsWork ==
    \A p \in Procs :
        (/\ pc[p] = "idle" /\ hit[p] = "heartbeat"
         /\ outcome[p] \in {"Api404", "Api409"} /\ ~stray)
            => work[p] # "running"

(* C6: release_lock succeeds whether the delete removed the object (200)   *)
(* or found none (404), and the object is absent right after it.           *)
IdempotentRelease ==
    /\ [](\A p \in Procs :
            (mode[p] = "direct" /\ pc[p] = "idle" /\ lastDel[p] \in {200, 404})
                => outcome[p] = "True")
    /\ [][\A p \in Procs :
            (/\ mode[p] = "direct"
             /\ lastDel'[p] \in {200, 404}
             /\ lastDel'[p] # lastDel[p] \/ (pc[p] = "held" /\ pc'[p] = "idle"))
                => lockObj' = None]_vars

(* a release that found the lock object already absent returned True *)
IdempotentReleaseWitness ==
    \E p \in Procs :
        mode[p] = "direct" /\ pc[p] = "idle" /\ lastDel[p] = 404 /\ outcome[p] = "True"

(* C7: while the lock stays another's and never older than expiry, a       *)
(* contender is still in its loop without having reached the delete, or    *)
(* has failed: with LockException, no earlier than timeout after entry (or *)
(* with a non-handled cluster error).                                      *)
ContendedAcquire ==
    \A p \in Procs :
        quiet[p] =>
            \/ pc[p] \in {"create", "test_own", "lock_age", "sleep"}
            \/ /\ pc[p] = "idle" /\ outcome[p] = "LockException"
               /\ now - start[p] >= Secs(lock_acquire_timeout)
            \/ pc[p] = "idle" /\ outcome[p] = "Api500" /\ hit[p] = "acquire"

ContendedAcquireWitness ==
    \E p \in Procs :
        quiet[p] /\ pc[p] = "idle" /\ outcome[p] = "LockException" /\ lockObj # None

(* C8: after a create conflict with another's lock the contender goes on   *)
(* to the force-delete iff the age it computed is strictly greater than    *)
(* expiry, and then retries without sleeping; otherwise it sleeps.         *)
ExpiryBoundary ==
    /\ [](\A p \in Procs :
            /\ pc[p] = "force_del" => seenAge[p] > Secs(lock_expiration)
            /\ pc[p] = "sleep" =>
                  /\ seenAge[p] <= Secs(lock_expiration)
                  /\ wake[p] >= start[p] + Secs(lock_acquire_delay))
    /\ [][\A p \in Procs :
            (pc[p] = "force_del" /\ pc'[p] # "force_del") => pc'[p] \in {"create", "idle"}]_vars

(* one contender found the lock expiry + 1 s old and is about to delete    *)
(* it, another found it exactly expiry old and sleeps                      *)
ExpiryBoundaryWitness ==
    \E p, q \in Procs :
        /\ pc[p] = "force_del" /\ seenAge[p] = Secs(lock_expiration) + Secs(1)
        /\ pc[q] = "sleep" /\ seenAge[q] = Secs(lock_expiration)

(* C9: after create answered 404 the CRD is installed, an `already exists` *)
(* answer of the install counting as success; the loop goes straight back  *)
(* to create, which succeeds if the lock is free.                          *)
MissingCRD ==
    /\ [](\A p \in Procs : via[p] = "crd" => crd)
    /\ [][\A p \in Procs :
            /\ (pc[p] = "mkcrd" /\ pc'[p] # "mkcrd" /\ hit'[p] = "none") =>
                  /\ crd'
                  /\ \/ pc'[p] = "create"
                     \/ pc'[p] = "idle" /\ outcome'[p] = "LockException"
            /\ (/\ pc[p] = "create" /\ via[p] = "crd" /\ lockObj = None
                /\ pc'[p] # "create" /\ hit'[p] = "none") =>
                  (Holding(p) /\ Owns(p))']_vars

(* a caller holds the lock it created right after installing the CRD *)
MissingCRDWitness ==
    \E p \in Procs : Holding(p) /\ Owns(p) /\ via[p] = "crd"

(* C10: a caller that received a non-handled status during acquire_lock    *)
(* has left the call with that error: it is at rest, not at a further      *)
(* create, read, delete or sleep.                                          *)
NonHandledFatal ==
    \A p \in Procs :
        hit[p] = "acquire" => (pc[p] = "idle" /\ outcome[p] = "Api500")

NonHandledFatalWitness ==
    \E p \in Procs : hit[p] = "acquire" /\ pc[p] = "idle" /\ lockObj # None

(* C11: heartbeat count.  When work under lock_and_thread has completed    *)
(* after running for D > expiry, with the supervising loop polling every   *)
(* second exactly, at least floor(D / updateInterval) - 1 heartbeats were  *)
(* applied to the lock object while it ran.                                *)
HeartbeatCount ==
    (/\ work[Deployer] \in {"returned", "raised"} /\ prompt
     /\ ran > Secs(lock_expiration))
        => beats >= (ran \div Secs(lock_update_interval)) - 1

(* C17: a contender whose create conflicted and that then finds no lock    *)
(* object when it computes the age does not fail: it never leaves          *)
(* acquire_lock with the TypeError of comparing 0 with the expiry.         *)
VanishedLockRetries ==
    \A p \in Procs : ~(pc[p] = "idle" /\ outcome[p] = "TypeError")

(* C18: takeover of an expired lock.  The force-delete removes the stale   *)
(* object and leads straight back to create (unless the timeout has run    *)
(* out meanwhile); that create, finding no object, makes the caller the    *)
(* holder of a lock whose uid differs from the stale one.                  *)
ExpiredTakeover ==
    [][\A p \in Procs :
        /\ (pc[p] = "force_del" /\ pc'[p] # "force_del" /\ hit'[p] = "none") =>
              /\ lockObj' = None
              /\ \/ pc'[p] = "create" /\ via'[p] = "expired"
                 \/ /\ pc'[p] = "idle" /\ outcome'[p] = "LockException"
                    /\ now - start[p] >= Secs(lock_acquire_timeout)
        /\ (/\ pc[p] = "create" /\ via[p] = "expired" /\ lockObj = None
            /\ pc'[p] # "create" /\ hit'[p] = "none") =>
              /\ Holding(p)' /\ Owns(p)'
              /\ meta'[p].uid # seenUid[p]]_vars

(* a caller holds a new lock right after force-deleting an expired one *)
ExpiredTakeoverWitness ==
    \E p \in Procs :
        /\ Holding(p) /\ Owns(p) /\ via[p] = "expired"
        /\ seenUid[p] # 0 /\ meta[p].uid # seenUid[p]

(* C19: acquire_lock on a handle whose recorded uid is the uid of the      *)
(* stored lock object returns success through the ownership test, and the  *)
(* lock object is left as it was; the ownership test passes only for a     *)
(* handle that recorded the uid of a lock it created.                      *)
IdempotentReacquire ==
    [][\A p \in Procs :
        /\ (pc[p] = "create" /\ Owns(p) /\ pc'[p] # "create" /\ hit'[p] = "none") =>
              (pc'[p] = "test_own" /\ lockObj' = lockObj)
        /\ (pc[p] = "test_own" /\ Owns(p) /\ pc'[p] # "test_own" /\ hit'[p] = "none") =>
              (Holding(p)' /\ via'[p] = "own")
        /\ (pc[p] = "test_own" /\ Holding(p)') =>
              /\ Owns(p) /\ meta[p].uid # 0 /\ meta'[p] = meta[p]
              /\ lockObj' = lockObj /\ serial' = serial]_vars

(* a holder called acquire_lock again and got the lock through its uid *)
IdempotentReacquireWitness ==
    \E p \in Procs :
        pc[p] = "held" /\ via[p] = "own" /\ outcome[p] = "True" /\ Owns(p)

---------------------------------------------------------------------------
(* Properties of the resolver *)

Range(l) == {l[k] : k \in 1..Len(l)}

(* the documents of the resolved graph: those reached from S through the   *)
(* document objects stored in lists                                        *)
DocsIn(S) ==
    {e.ix : e \in {x \in UNION {Range(ListOf(self_documents[i])) : i \in S} :
                      x.tag = "doc"}}
RECURSIVE ReachFrom(_)
ReachFrom(S) == IF DocsIn(S) \subseteq S THEN S ELSE ReachFrom(S \cup DocsIn(S))
Graph == ReachFrom({manifest})

(* C12: resolution closure.  After a successful get_manifest no element of *)
(* the manifest's chart_groups, of a group's charts or of a chart's        *)
(* dependencies in the resolved graph is a name string, inlined objects    *)
(* and their own lists included.                                           *)
ResolutionClosure ==
    rpc = "resolved" =>
        \A i \in Graph : \A e \in Range(ListOf(self_documents[i])) :
            e.tag # "name" /\ e.list = <<>>

(* C13: order preservation.  Every list of the resolver's documents has    *)
(* the length of the input list, and its element at each index is the      *)
(* input's element at that index or the document of the right kind named   *)
(* by the string there; after a successful get_manifest every name of a    *)
(* list the resolution went through has been replaced so.                  *)
OrderPreserved ==
    rpc # "new" =>
        /\ \A i \in 1..Len(documents) :
              LET a == documents[i].list
                  r == self_documents[i].list
                  kind == IF documents[i].schema = "Manifest" THEN "ChartGroup"
                          ELSE "Chart"
              IN /\ Len(r) = Len(a)
                 /\ \A k \in 1..Len(a) :
                       \/ r[k] = a[k]
                       \/ /\ a[k].tag = "name" /\ r[k].tag = "doc"
                          /\ self_documents[r[k].ix].name = a[k].name
                          /\ self_documents[r[k].ix].schema = kind
        /\ rpc = "resolved" =>
              \A i \in Graph : \A k \in 1..Len(ListOf(documents[i])) :
                  documents[i].list[k].tag = "name" => self_documents[i].list[k].tag = "doc"

(* a resolved list of two names holds the two documents in the input order *)
OrderPreservedWitness ==
    /\ rpc = "resolved"
    /\ \E i \in Graph :
          /\ documents[i].list = <<Name("b"), Name("a")>>
          /\ self_documents[i].list = <<Doc(2), Doc(1)>>

(* C14: manifest selection and existence check.  Construction succeeds iff *)
(* exactly one manifest of the input bears the target name (or is there at *)
(* all, with no target) and the input has a chart and a group; otherwise   *)
(* it fails with ManifestException; on success the manifest kept is the    *)
(* selected one.                                                           *)
Kept ==
    {i \in 1..Len(documents) :
        /\ documents[i].schema = "Manifest"
        /\ target_manifest = "" \/ documents[i].name = target_manifest}
HasKind(kind) == \E i \in 1..Len(documents) : documents[i].schema = kind

SelectionRule ==
    rpc # "new" =>
        /\ rpc # "rejected" <=>
              (Cardinality(Kept) = 1 /\ HasKind("Chart") /\ HasKind("ChartGroup"))
        /\ rpc = "rejected" => raised.type = "ManifestException"
        /\ rpc # "rejected" => manifest \in Kept

(* of two manifests the one named by the target was selected *)
SelectionRuleWitness ==
    /\ rpc \notin {"new", "rejected"}
    /\ Cardinality({i \in 1..Len(documents) : documents[i].schema = "Manifest"}) = 2
    /\ target_manifest = "n" /\ self_documents[manifest].name = "n"

(* C15: error context of a missing reference.  When get_manifest fails     *)
(* because a group lists a chart no document bears, the surfaced error     *)
(* names the group and the missing chart; when a chart's dependency is     *)
(* missing, it names the chart that lists it.                              *)
Mentions(e) == {e.named}
ErrorContext ==
    rpc = "failed" =>
        /\ cause.at = "group" => {cause.encl, cause.ref} \subseteq Mentions(raised)
        /\ cause.at = "deps" => cause.encl \in Mentions(raised)

(* C16: accessor safety.  After a successful get_manifest no accessor      *)
(* raises.                                                                 *)
AccessorsNeverRaise == accessed.outcome \in {"none", "ok"}

(* C20: cycle handling.  The resolver never enters _build_chart_deps for a *)
(* chart whose dependencies it is already resolving: a revisit fails       *)
(* instead of recursing.                                                   *)
CycleDetected ==
    \A i, j \in 1..Len(stack) :
        (i < j /\ stack[i].fn = "deps" /\ stack[j].fn = "deps")
            => stack[i].ix # stack[j].ix

(* C21: input immutability.  No step of the constructor, of get_manifest   *)
(* (whether it ends in success or in an error) or of an accessor changes   *)
(* the caller's documents: every name in them stays a name.                *)
InputImmutable == [][documents' = documents]_vars

(* the resolver's copy holds documents where the caller's list, as it was  *)
(* handed in, still holds their names                                      *)
InputImmutableWitness ==
    /\ rpc \in {"resolved", "failed"}
    /\ \E i \in 1..Len(documents) : \E k \in 1..Len(documents[i].list) :
          documents[i].list[k].tag = "name" /\ self_documents[i].list[k].tag = "doc"

(* C22: malformed heartbeat stamp.  A contender that finds another's lock  *)
(* object without data.lastUpdated, or with one that does not parse, does  *)
(* not fail: it never leaves acquire_lock with the KeyError or ValueError  *)
(* of reading the stamp (it takes the lock for expired instead).           *)
MalformedStampExpired ==
    \A p \in Procs : ~(pc[p] = "idle" /\ outcome[p] \in {"KeyError", "ValueError"})

(* C23: owner-only deletion.  A release issued by a holder, by             *)
(* release_lock or by __exit__, that deletes a lock object deletes the one *)
(* whose uid the holder recorded when it acquired.                         *)
OwnerOnlyDelete ==
    [][\A p \in Procs :
        (Holding(p) /\ pc'[p] = "idle" /\ lastDel'[p] = 200 /\ lockObj' = None
         /\ lockObj # None /\ ~stray)
            => lockObj.uid = meta[p].uid]_vars

(* C24: a live holder is never expired.  While work runs under             *)
(* lock_and_thread, with no cluster error and the supervising loop polling *)
(* every second exactly, the lock object the deployment created is never   *)
(* older than expiry.                                                      *)
LiveHolderFresh ==
    (/\ pc[Deployer] \in {"hb_sleep", "update"} /\ work[Deployer] = "running"
     /\ prompt /\ hit[Deployer] = "none" /\ Owns(Deployer))
        => Age(lockObj) <= Secs(lock_expiration)

=============================================================================
